---- MODULE Spec2Model ----
(***************************************************************************)
(* Model of exceptions.c / exceptions.h: Cortex-M3/M4 fault trapping,      *)
(* the four naked trampolines, the four fault handlers, printExtraInfo     *)
(* and the four fault injectors, together with the part of the ARMv7-M     *)
(* exception model the assembly relies on (stacking, EXC_RETURN,           *)
(* execution priority, PRIMASK / FAULTMASK, escalation to HardFault).      *)
(*                                                                         *)
(* 32-bit words are modelled as the set of their set bit positions         *)
(* (a subset of 0..31): x & m is x \cap m, x | m is x \cup m, (1u<<n) is   *)
(* {n}. Stack addresses and frame registers stay small integers.           *)
(***************************************************************************)
EXTENDS Integers, Sequences, FiniteSets, TLC

VARIABLES
    CCR, SHCSR, CFSR, HFSR, BFAR, MMFAR,  \* SCB registers
    PRIMASK, FAULTMASK,                   \* mask registers (0 / 1)
    MSP, PSP, SPSEL,                      \* stack pointers, CONTROL.SPSEL
    r0, r1, lr, Z,                        \* core registers and the Z flag
    pc,                                   \* [fn, at]: function and position
    active,                               \* stack of active exceptions
    mem,                                  \* stacked exception frames by address
    aFrame,                               \* argument received by the handler
    sink,                                 \* lines written through KernelPrintf
    DEBUG_KERNEL,                         \* __DEBUG_KERNEL__ defined or not
    SubFaultPrio, IrqPrio,                \* SHPR / NVIC priorities (integrator)
    initCalls, irqCount,                  \* bounded counters
    injected,                             \* history: which injector ran, and how
    trapLog                               \* history: fault exception entries

scb     == <<CCR, SHCSR, CFSR, HFSR, BFAR, MMFAR>>
masks   == <<PRIMASK, FAULTMASK>>
stack   == <<MSP, PSP, mem, active>>
regs    == <<r0, r1, lr, Z>>
config  == <<SPSEL, DEBUG_KERNEL, SubFaultPrio, IrqPrio>>
vars    == <<scb, masks, stack, regs, config, pc, aFrame, sink,
             initCalls, irqCount, injected, trapLog>>

(***************************************************************************)
(* Bounds                                                                  *)
(***************************************************************************)
MaxInitCalls == 2      \* calls of exceptionsInit in one run
MaxIrqs      == 2      \* interrupt requests raised in one run
MaxPrio      == 1      \* configurable priorities range over 0..MaxPrio
MaxCauseBits == 2      \* CFSR bits set at once in the report specification

(***************************************************************************)
(* Words                                                                   *)
(***************************************************************************)
Bit(n) == {n}

NibbleBits(d) == {i \in 0..3 : (d \div (2^i)) % 2 = 1}

\* A word from its hexadecimal digits, most significant first.
Hex(ds) ==
    UNION { {4 * (Len(ds) - k) + i : i \in NibbleBits(ds[k])} : k \in 1..Len(ds) }

\* exceptions.h
EXCEPTION_HANDLER_FIELD_IS_INVALID == Hex(<<13, 14, 10, 13, 13, 0, 13, 0>>)

\* Usage fault status bits.
SCB_CFSR_DIVBYZERO   == Bit(25)
SCB_CFSR_UNALIGNED   == Bit(24)
SCB_CFSR_UNDEFINSTR  == Bit(16)
\* Bus fault status bits.
SCB_CFSR_BFARVALID   == Bit(15)
SCB_CFSR_LSPERR      == Bit(13)
SCB_CFSR_STKERR      == Bit(12)
SCB_CFSR_UNSTKERR    == Bit(11)
SCB_CFSR_IMPRECISERR == Bit(10)
SCB_CFSR_PRECISERR   == Bit(9)
SCB_CFSR_IBUSERR     == Bit(8)
\* Memory manager fault status bits.
SCB_CFSR_MMARVALID   == Bit(7)
SCB_CFSR_MLSPERR     == Bit(5)
SCB_CFSR_MSTKERR     == Bit(4)
SCB_CFSR_MUNSTKERR   == Bit(3)
SCB_CFSR_DACCVIOL    == Bit(1)
SCB_CFSR_IACCVIOL    == Bit(0)

\* Set by the hardware on a branch to an address with bit 0 clear; the
\* source has no name for it and printExtraInfo does not decode it.
CFSR_INVSTATE        == Bit(17)
\* HFSR.FORCED: set by the hardware when a sub-fault escalates.
HFSR_FORCED          == Bit(30)

\* Register bit fields used by exceptionsInit.
SCB_CCR_UNALIGN_TRP_Msk     == Bit(3)
SCB_CCR_DIV_0_TRP_Msk       == Bit(4)
SCB_SHCSR_USGFAULTENA_Msk   == Bit(18)
SCB_SHCSR_BUSFAULTENA_Msk   == Bit(17)
SCB_SHCSR_MEMFAULTENA_Msk   == Bit(16)

\* Variant: TRAP_DIVIDE_BY_ZERO_ONLY is not defined.
TRAP_DIVIDE_BY_ZERO_ONLY_undefined == FALSE

\* #define TRAP_DIVIDE_BY_ZERO_ONLY
TRAP_DIVIDE_BY_ZERO_ONLY == TRUE

(***************************************************************************)
(* Names                                                                   *)
(***************************************************************************)
Trampolines == {"HardFault_Handler", "MemManage_Handler",
                "BusFault_Handler", "UsageFault_Handler"}
HandlerFns  == {"hardFault", "memMangFault", "busFault", "usageFault"}
ExceptionTypes == {"Hard_Fault", "MemMang_Fault", "Bus_Fault", "Usage_Fault"}
FaultKinds  == {"HardFault", "MemManage", "BusFault", "UsageFault"}
ThreadFns   == {"main", "generateHardFault", "generateMemMangFault",
                "generateBusFault", "generateUsageFault"}

\* The vector table binds each fault to the trampoline of the same name.
VectorTable(exc) ==
    CASE exc = "HardFault"  -> "HardFault_Handler"
      [] exc = "MemManage"  -> "MemManage_Handler"
      [] exc = "BusFault"   -> "BusFault_Handler"
      [] exc = "UsageFault" -> "UsageFault_Handler"
      [] exc = "IRQ"        -> "IRQHandler"

\* Link addresses of the handlers (Thumb: bit 0 set); distinct, otherwise
\* arbitrary.
AddressOf(fn) ==
    CASE fn = "hardFault"    -> Bit(0) \cup Bit(8)
      [] fn = "memMangFault" -> Bit(0) \cup Bit(9)
      [] fn = "busFault"     -> Bit(0) \cup Bit(10)
      [] fn = "usageFault"   -> Bit(0) \cup Bit(11)

FnAt(addr) == CHOOSE fn \in HandlerFns : AddressOf(fn) = addr

\* Variant: MemManage_Handler was copied from BusFault_Handler with the
\* handler name left as it was.
TrampolineTarget_copied(t) ==
    CASE t = "HardFault_Handler"  -> "hardFault"
      [] t = "MemManage_Handler"  -> "busFault"
      [] t = "BusFault_Handler"   -> "busFault"
      [] t = "UsageFault_Handler" -> "usageFault"

\* ldr r1, =<handler> in each trampoline.
TrampolineTarget(t) ==
    CASE t = "HardFault_Handler"  -> "hardFault"
      [] t = "MemManage_Handler"  -> "memMangFault"
      [] t = "BusFault_Handler"   -> "busFault"
      [] t = "UsageFault_Handler" -> "usageFault"

\* The exceptionType each handler passes to printExtraInfo.
HandlerType(fn) ==
    CASE fn = "hardFault"    -> "Hard_Fault"
      [] fn = "memMangFault" -> "MemMang_Fault"
      [] fn = "busFault"     -> "Bus_Fault"
      [] fn = "usageFault"   -> "Usage_Fault"

(***************************************************************************)
(* ARMv7-M exception model                                                 *)
(***************************************************************************)
FrameSize  == 32
InitialMSP == 4096
InitialPSP == 2048

EXC_RETURN_HANDLER    == Hex(<<15, 15, 15, 15, 15, 15, 15, 1>>)
EXC_RETURN_THREAD_MSP == Hex(<<15, 15, 15, 15, 15, 15, 15, 9>>)
EXC_RETURN_THREAD_PSP == Hex(<<15, 15, 15, 15, 15, 15, 15, 13>>)

ThreadPriority == 256

Min2(a, b) == IF a < b THEN a ELSE b

MinPrio(s) ==
    IF s = <<>> THEN ThreadPriority
    ELSE CHOOSE p \in {s[i].prio : i \in 1..Len(s)} :
             \A i \in 1..Len(s) : p <= s[i].prio

\* Current execution priority: the active exceptions, raised to 0 by
\* PRIMASK = 1 and to -1 by FAULTMASK = 1.
ExecPriority ==
    LET base == MinPrio(active)
        pm   == IF PRIMASK = 1 THEN Min2(base, 0) ELSE base
    IN  IF FAULTMASK = 1 THEN Min2(pm, -1) ELSE pm

Priority(exc) ==
    CASE exc = "HardFault" -> -1
      [] exc = "IRQ"       -> IrqPrio
      [] OTHER             -> SubFaultPrio

EnableBit(kind) ==
    CASE kind = "UsageFault" -> SCB_SHCSR_USGFAULTENA_Msk
      [] kind = "BusFault"   -> SCB_SHCSR_BUSFAULTENA_Msk
      [] kind = "MemManage"  -> SCB_SHCSR_MEMFAULTENA_Msk
      [] OTHER               -> {}

\* Variant: the sub-fault enables are ignored, every fault escalates.
TakenVector_alwaysEscalated(kind) ==
    IF -1 < ExecPriority THEN "HardFault" ELSE "Lockup"

\* The vector a synchronous fault of the given kind is taken on: its own
\* when enabled and of sufficient priority, otherwise escalated to
\* HardFault, otherwise the processor locks up.
TakenVector(kind) ==
    IF kind # "HardFault" /\ (SHCSR \cap EnableBit(kind)) # {}
                          /\ Priority(kind) < ExecPriority
    THEN kind
    ELSE IF -1 < ExecPriority THEN "HardFault" ELSE "Lockup"

\* Exception entry: the hardware pushes the frame on the active stack,
\* loads EXC_RETURN into lr and vectors to the handler.
ExceptionEntry(exc, retpc) ==
    LET usePSP == active = <<>> /\ SPSEL = 1
        sp     == (IF usePSP THEN PSP ELSE MSP) - FrameSize
        frame  == [m_R0 |-> r0, m_R1 |-> r1, m_R2 |-> 2, m_R3 |-> 3,
                   m_R12 |-> 12, m_LR |-> lr, m_PC |-> retpc, m_PSR |-> Z]
        exret  == IF active # <<>> THEN EXC_RETURN_HANDLER
                  ELSE IF SPSEL = 1 THEN EXC_RETURN_THREAD_PSP
                  ELSE EXC_RETURN_THREAD_MSP
        msp2   == IF usePSP THEN MSP ELSE sp
        psp2   == IF usePSP THEN sp ELSE PSP
    IN  /\ mem' = [a \in DOMAIN mem \cup {sp} |-> IF a = sp THEN frame ELSE mem[a]]
        /\ MSP' = msp2
        /\ PSP' = psp2
        /\ lr' = exret
        /\ active' = Append(active, [exc |-> exc, prio |-> Priority(exc)])
        /\ pc' = [fn |-> VectorTable(exc), at |-> IF exc = "IRQ" THEN "body" ELSE "tst"]
        /\ trapLog' = IF exc = "IRQ" THEN trapLog
                      ELSE Append(trapLog, [vector |-> VectorTable(exc), excReturn |-> exret,
                                            msp |-> msp2, psp |-> psp2])
        /\ UNCHANGED <<r0, r1, Z>>

\* Exception return (bx lr with lr = EXC_RETURN): unstack from the stack
\* bit 2 of EXC_RETURN names; FAULTMASK is cleared by the hardware.
ExceptionReturn ==
    LET usePSP == (lr \cap Bit(2)) # {}
        sp     == IF usePSP THEN PSP ELSE MSP
        f      == mem[sp]
    IN  /\ r0' = f.m_R0
        /\ r1' = f.m_R1
        /\ lr' = f.m_LR
        /\ Z'  = f.m_PSR
        /\ pc' = f.m_PC
        /\ mem' = [a \in DOMAIN mem \ {sp} |-> mem[a]]
        /\ MSP' = IF usePSP THEN MSP ELSE sp + FrameSize
        /\ PSP' = IF usePSP THEN sp + FrameSize ELSE PSP
        /\ active' = SubSeq(active, 1, Len(active) - 1)
        /\ FAULTMASK' = 0
        /\ UNCHANGED PRIMASK

\* A synchronous fault: the hardware records the cause and takes the vector.
RaiseFault(kind, cause, retpc) ==
    LET v == TakenVector(kind)
    IN  /\ CFSR' = CFSR \cup cause
        /\ HFSR' = IF v = "HardFault" /\ kind # "HardFault"
                   THEN HFSR \cup HFSR_FORCED ELSE HFSR
        /\ IF v = "Lockup"
           THEN /\ pc' = [fn |-> "lockup", at |-> pc.fn]
                /\ UNCHANGED <<stack, regs, trapLog>>
           ELSE ExceptionEntry(v, retpc)

(***************************************************************************)
(* exceptionsInit                                                          *)
(***************************************************************************)
\* Variant: the enables are toggled (^=) instead of set (|=).
SymDiff(a, b) == (a \ b) \cup (b \ a)

exceptionsInit_toggling ==
    /\ pc.fn = "main"
    /\ initCalls < MaxInitCalls
    /\ CCR' = SymDiff(CCR, SCB_CCR_DIV_0_TRP_Msk)
    /\ SHCSR' = SymDiff(SHCSR, SCB_SHCSR_USGFAULTENA_Msk \cup SCB_SHCSR_BUSFAULTENA_Msk
                               \cup SCB_SHCSR_MEMFAULTENA_Msk)
    /\ initCalls' = initCalls + 1
    /\ UNCHANGED <<CFSR, HFSR, BFAR, MMFAR, masks, stack, regs, config, pc,
                   aFrame, sink, irqCount, injected, trapLog>>

exceptionsInit ==
    /\ pc.fn = "main"
    /\ initCalls < MaxInitCalls
    /\ CCR' = IF ~TRAP_DIVIDE_BY_ZERO_ONLY
              THEN CCR \cup SCB_CCR_UNALIGN_TRP_Msk \cup SCB_CCR_DIV_0_TRP_Msk
              ELSE CCR \cup SCB_CCR_DIV_0_TRP_Msk
    /\ SHCSR' = SHCSR \cup SCB_SHCSR_USGFAULTENA_Msk \cup SCB_SHCSR_BUSFAULTENA_Msk
                      \cup SCB_SHCSR_MEMFAULTENA_Msk
    /\ initCalls' = initCalls + 1
    /\ UNCHANGED <<CFSR, HFSR, BFAR, MMFAR, masks, stack, regs, config, pc,
                   aFrame, sink, irqCount, injected, trapLog>>

(***************************************************************************)
(* Fault injectors. Each runs in thread mode, once per run.                *)
(***************************************************************************)
CanInject == pc.fn = "main" /\ injected.fn = "none"

Injected(fn, how) == [fn |-> fn, configured |-> initCalls > 0, outcome |-> how]

\* fp = 0; fp(): the branch to address 0 clears the Thumb bit, which the
\* hardware reports as a usage fault (INVSTATE). Calling a null function
\* pointer is undefined in C, so the build may also have put a trap
\* instruction (UDF) in its place.
NullCallOutcomes == {"branch", "trap"}

generateHardFault ==
    /\ CanInject
    /\ \E how \in NullCallOutcomes :
         /\ injected' = Injected("generateHardFault", how)
         /\ RaiseFault("UsageFault",
                       IF how = "branch" THEN CFSR_INVSTATE ELSE SCB_CFSR_UNDEFINSTR,
                       [fn |-> "generateHardFault", at |-> "fault"])
    /\ UNCHANGED <<CCR, SHCSR, BFAR, MMFAR, masks, config, aFrame, sink,
                   initCalls, irqCount>>

\* fp = 0xFFFFFFFF; fp(): instruction fetch from the execute-never system
\* region, a memory-management fault (IACCVIOL; MMFAR is not written).
generateMemMangFault ==
    /\ CanInject
    /\ injected' = Injected("generateMemMangFault", "branch")
    /\ RaiseFault("MemManage", SCB_CFSR_IACCVIOL,
                  [fn |-> "generateMemMangFault", at |-> "fault"])
    /\ UNCHANGED <<CCR, SHCSR, BFAR, MMFAR, masks, config, aFrame, sink,
                   initCalls, irqCount>>

\* n = *(volatile unsigned int*)0xCCCCCCCC: a precise data bus error; the
\* hardware latches the address in BFAR and sets BFARVALID.
InvalidDataAddress == Hex(<<12, 12, 12, 12, 12, 12, 12, 12>>)

generateBusFault ==
    /\ CanInject
    /\ injected' = Injected("generateBusFault", "load")
    /\ BFAR' = InvalidDataAddress
    /\ RaiseFault("BusFault", SCB_CFSR_PRECISERR \cup SCB_CFSR_BFARVALID,
                  [fn |-> "generateBusFault", at |-> "fault"])
    /\ UNCHANGED <<CCR, SHCSR, MMFAR, masks, config, aFrame, sink,
                   initCalls, irqCount>>

\* return 1 / 0: undefined in C. The build either executes SDIV with a
\* zero divisor (a usage fault only when CCR.DIV_0_TRP is set, otherwise
\* the quotient is 0 and the function returns), or has a trap instruction
\* in its place, or has dropped the division.
DivOutcomes == {"sdiv", "trap", "elided"}

generateUsageFault ==
    /\ CanInject
    /\ \E how \in DivOutcomes :
         /\ injected' = Injected("generateUsageFault", how)
         /\ CASE how = "sdiv" /\ (CCR \cap SCB_CCR_DIV_0_TRP_Msk) # {} ->
                   RaiseFault("UsageFault", SCB_CFSR_DIVBYZERO,
                              [fn |-> "generateUsageFault", at |-> "fault"])
              [] how = "sdiv" /\ (CCR \cap SCB_CCR_DIV_0_TRP_Msk) = {} ->
                   /\ r0' = 0
                   /\ UNCHANGED <<CFSR, HFSR, stack, r1, lr, Z, pc, trapLog>>
              [] how = "trap" ->
                   RaiseFault("UsageFault", SCB_CFSR_UNDEFINSTR,
                              [fn |-> "generateUsageFault", at |-> "fault"])
              [] how = "elided" ->
                   UNCHANGED <<CFSR, HFSR, stack, regs, pc, trapLog>>
    /\ UNCHANGED <<CCR, SHCSR, BFAR, MMFAR, masks, config, aFrame, sink,
                   initCalls, irqCount>>

(***************************************************************************)
(* The trampolines, one action per instruction.                            *)
(***************************************************************************)
At(fn, at) == pc.fn = fn /\ pc.at = at

Goto(at) == pc' = [fn |-> pc.fn, at |-> at]

\* msr PRIMASK / FAULTMASK, rX: the mask takes bit 0 of the register.
MaskValue(w) == IF (w \cap Bit(0)) # {} THEN 1 ELSE 0

\* Variant: the move executes whatever the condition.
CondMrs_unconditional(cond, current, spval) == spval

\* mrs<cond> r0, <sp>: executed only when the IT condition holds.
CondMrs(cond, current, spval) == IF cond THEN spval ELSE current

\* tst lr, #4
Tramp_tst(t) ==
    /\ At(t, "tst")
    /\ Z' = ((lr \cap Bit(2)) = {})
    /\ Goto("ite")
    /\ UNCHANGED <<scb, masks, stack, r0, r1, lr, config, aFrame, sink,
                   initCalls, irqCount, injected, trapLog>>

\* ite eq
Tramp_ite(t) ==
    /\ At(t, "ite")
    /\ Goto("mrseq")
    /\ UNCHANGED <<scb, masks, stack, regs, config, aFrame, sink,
                   initCalls, irqCount, injected, trapLog>>

\* mrseq r0, msp
Tramp_mrseq(t) ==
    /\ At(t, "mrseq")
    /\ r0' = CondMrs(Z, r0, MSP)
    /\ Goto("mrsne")
    /\ UNCHANGED <<scb, masks, stack, r1, lr, Z, config, aFrame, sink,
                   initCalls, irqCount, injected, trapLog>>

\* mrsne r0, psp
Tramp_mrsne(t) ==
    /\ At(t, "mrsne")
    /\ r0' = CondMrs(~Z, r0, PSP)
    /\ Goto("mov")
    /\ UNCHANGED <<scb, masks, stack, r1, lr, Z, config, aFrame, sink,
                   initCalls, irqCount, injected, trapLog>>

\* mov r1, #0
Tramp_mov(t) ==
    /\ At(t, "mov")
    /\ r1' = {}
    /\ Goto("msr_primask")
    /\ UNCHANGED <<scb, masks, stack, r0, lr, Z, config, aFrame, sink,
                   initCalls, irqCount, injected, trapLog>>

\* msr PRIMASK, r1
Tramp_msr_primask(t) ==
    /\ At(t, "msr_primask")
    /\ PRIMASK' = MaskValue(r1)
    /\ Goto("msr_faultmask")
    /\ UNCHANGED <<scb, FAULTMASK, stack, regs, config, aFrame, sink,
                   initCalls, irqCount, injected, trapLog>>

\* msr FAULTMASK, r1
Tramp_msr_faultmask(t) ==
    /\ At(t, "msr_faultmask")
    /\ FAULTMASK' = MaskValue(r1)
    /\ Goto("ldr")
    /\ UNCHANGED <<scb, PRIMASK, stack, regs, config, aFrame, sink,
                   initCalls, irqCount, injected, trapLog>>

\* ldr r1, =<handler>
Tramp_ldr(t) ==
    /\ At(t, "ldr")
    /\ r1' = AddressOf(TrampolineTarget(t))
    /\ Goto("bx")
    /\ UNCHANGED <<scb, masks, stack, r0, lr, Z, config, aFrame, sink,
                   initCalls, irqCount, injected, trapLog>>

\* Variant: the handler calls printExtraInfo whether or not
\* __DEBUG_KERNEL__ is defined.
Tramp_bx_ignoringIfdef(t) ==
    /\ At(t, "bx")
    /\ pc' = [fn |-> FnAt(r1), at |-> "print"]
    /\ aFrame' = r0
    /\ UNCHANGED <<scb, masks, stack, regs, config, sink,
                   initCalls, irqCount, injected, trapLog>>

\* bx r1: tail transfer; r0 is the handler's argument. Without
\* __DEBUG_KERNEL__ the handler's body is the BKPT alone.
Tramp_bx(t) ==
    /\ At(t, "bx")
    /\ pc' = [fn |-> FnAt(r1), at |-> IF DEBUG_KERNEL THEN "print" ELSE "bkpt"]
    /\ aFrame' = r0
    /\ UNCHANGED <<scb, masks, stack, regs, config, sink,
                   initCalls, irqCount, injected, trapLog>>

(***************************************************************************)
(* printExtraInfo. A line is the KernelPrintf format string and its        *)
(* arguments.                                                              *)
(***************************************************************************)
Line(fmt, args) == [fmt |-> fmt, args |-> args]

\* Variant: the unaligned test comes first.
UsageReason_unalignedFirst(cfsr) ==
    IF (cfsr \cap SCB_CFSR_UNALIGNED) # {} THEN "Reason: Misaligned data access\r\n\n"
    ELSE IF (cfsr \cap SCB_CFSR_DIVBYZERO) # {} THEN "Reason: Division by zero\r\n\n"
    ELSE IF (cfsr \cap SCB_CFSR_UNDEFINSTR) # {} THEN "Reason: Undefined instruction\r\n\n"
    ELSE "Reason: Unknown\r\n\n"

\* case Usage_Fault
UsageReason(cfsr) ==
    IF (cfsr \cap SCB_CFSR_DIVBYZERO) # {} THEN "Reason: Division by zero\r\n\n"
    ELSE IF (cfsr \cap SCB_CFSR_UNALIGNED) # {} THEN "Reason: Misaligned data access\r\n\n"
    ELSE IF (cfsr \cap SCB_CFSR_UNDEFINSTR) # {} THEN "Reason: Undefined instruction\r\n\n"
    ELSE "Reason: Unknown\r\n\n"

\* Variant: the data-bus test misses the imprecise error.
BusReason_preciseOnly(cfsr) ==
    IF (cfsr \cap SCB_CFSR_IBUSERR) # {} THEN "Reason: Invalid code address\r\n\n"
    ELSE IF (cfsr \cap SCB_CFSR_PRECISERR) # {} THEN "Reason: Invalid data address\r\n\n"
    ELSE IF (cfsr \cap (SCB_CFSR_STKERR \cup SCB_CFSR_UNSTKERR)) # {}
         THEN "Reason: Exception stack fault\r\n\n"
    ELSE IF (cfsr \cap SCB_CFSR_LSPERR) # {} THEN "Reason: Floating point fault\r\n\n"
    ELSE "Reason: Unknown\r\n\n"

\* case Bus_Fault
BusReason(cfsr) ==
    IF (cfsr \cap SCB_CFSR_IBUSERR) # {} THEN "Reason: Invalid code address\r\n\n"
    ELSE IF (cfsr \cap (SCB_CFSR_PRECISERR \cup SCB_CFSR_IMPRECISERR)) # {}
         THEN "Reason: Invalid data address\r\n\n"
    ELSE IF (cfsr \cap (SCB_CFSR_STKERR \cup SCB_CFSR_UNSTKERR)) # {}
         THEN "Reason: Exception stack fault\r\n\n"
    ELSE IF (cfsr \cap SCB_CFSR_LSPERR) # {} THEN "Reason: Floating point fault\r\n\n"
    ELSE "Reason: Unknown\r\n\n"

\* case MemMang_Fault (the lazy-state test is on SCB_CFSR_LSPERR)
MemMangReason(cfsr) ==
    IF (cfsr \cap SCB_CFSR_IACCVIOL) # {} THEN "Reason: Invalid code address\r\n\n"
    ELSE IF (cfsr \cap SCB_CFSR_DACCVIOL) # {} THEN "Reason: Invalid data address\r\n\n"
    ELSE IF (cfsr \cap (SCB_CFSR_MSTKERR \cup SCB_CFSR_MUNSTKERR)) # {}
         THEN "Reason: Exception stack fault\r\n\n"
    ELSE IF (cfsr \cap SCB_CFSR_LSPERR) # {} THEN "Reason: Floating point fault\r\n\n"
    ELSE "Reason: Unknown\r\n\n"

TypeLine(eType) ==
    CASE eType = "Usage_Fault"   -> "Type: Usage Fault\r\n"
      [] eType = "Bus_Fault"     -> "Type: Bus Fault\r\n"
      [] eType = "Hard_Fault"    -> "Type: Hard Fault\r\n"
      [] eType = "MemMang_Fault" -> "Type: Memory Fault\r\n"

ReasonLine(eType, cfsr) ==
    CASE eType = "Usage_Fault"   -> UsageReason(cfsr)
      [] eType = "Bus_Fault"     -> BusReason(cfsr)
      [] eType = "Hard_Fault"    -> "Reason: Unknown\r\n\n"
      [] eType = "MemMang_Fault" -> MemMangReason(cfsr)

\* Variant: the Hard_Fault case does not read SCB->HFSR.
HfsrField_neverRead(eType, hfsrReg) == EXCEPTION_HANDLER_FIELD_IS_INVALID

\* Variant: SCB->HFSR is read for every kind.
HfsrField_alwaysRead(eType, hfsrReg) == hfsrReg

\* uint32_t hfsr: the sentinel unless the Hard_Fault case reads SCB->HFSR.
HfsrField(eType, hfsrReg) ==
    IF eType = "Hard_Fault" THEN hfsrReg ELSE EXCEPTION_HANDLER_FIELD_IS_INVALID

\* Variant: either valid flag lets the bus fault address through.
FaultAdd_anyValidFlag(eType, cfsr, bfarReg, mmfarReg) ==
    IF eType \in {"Bus_Fault", "MemMang_Fault"}
          /\ (cfsr \cap SCB_CFSR_BFARVALID) # {} THEN bfarReg
    ELSE IF eType = "MemMang_Fault" /\ (cfsr \cap SCB_CFSR_MMARVALID) # {} THEN mmfarReg
    ELSE EXCEPTION_HANDLER_FIELD_IS_INVALID

\* uint32_t faultAdd: the sentinel unless the kind's valid flag is set.
FaultAdd(eType, cfsr, bfarReg, mmfarReg) ==
    IF eType = "Bus_Fault" /\ (cfsr \cap SCB_CFSR_BFARVALID) # {} THEN bfarReg
    ELSE IF eType = "MemMang_Fault" /\ (cfsr \cap SCB_CFSR_MMARVALID) # {} THEN mmfarReg
    ELSE EXCEPTION_HANDLER_FIELD_IS_INVALID

\* Variant: the fault information is printed before the frame registers.
printExtraInfo_statusFirst(frame, eType, cfsrReg, hfsrReg, bfarReg, mmfarReg) ==
    LET cfsr == cfsrReg
    IN  << Line("**** EXCEPTION OCCURRED ****\r\n", <<>>),
           Line(TypeLine(eType), <<>>),
           Line(ReasonLine(eType, cfsr), <<>>),
           Line("HFSR=%x CFSR=%x\r\n", <<HfsrField(eType, hfsrReg), cfsr>>),
           Line("Fault address=%x\r\n", <<FaultAdd(eType, cfsr, bfarReg, mmfarReg)>>),
           Line("R0=%x R1=%x\r\n", <<frame.m_R0, frame.m_R1>>),
           Line("R2=%x R3=%x\r\n", <<frame.m_R2, frame.m_R3>>),
           Line("R12=%x LR=%x\r\n", <<frame.m_R12, frame.m_LR>>),
           Line("PC=%x PSR=%x\r\n", <<frame.m_PC, frame.m_PSR>>) >>

printExtraInfo(frame, eType, cfsrReg, hfsrReg, bfarReg, mmfarReg) ==
    LET cfsr == cfsrReg
    IN  << Line("**** EXCEPTION OCCURRED ****\r\n", <<>>),
           Line(TypeLine(eType), <<>>),
           Line(ReasonLine(eType, cfsr), <<>>),
           Line("R0=%x R1=%x\r\n", <<frame.m_R0, frame.m_R1>>),
           Line("R2=%x R3=%x\r\n", <<frame.m_R2, frame.m_R3>>),
           Line("R12=%x LR=%x\r\n", <<frame.m_R12, frame.m_LR>>),
           Line("PC=%x PSR=%x\r\n", <<frame.m_PC, frame.m_PSR>>),
           Line("HFSR=%x CFSR=%x\r\n", <<HfsrField(eType, hfsrReg), cfsr>>),
           Line("Fault address=%x\r\n", <<FaultAdd(eType, cfsr, bfarReg, mmfarReg)>>) >>

(***************************************************************************)
(* The fault handlers                                                      *)
(***************************************************************************)
\* What the handler reads through aFrame; memory that holds no stacked
\* frame reads as unrelated contents.
NoFrame == [m_R0 |-> 0, m_R1 |-> {}, m_R2 |-> 0, m_R3 |-> 0, m_R12 |-> 0,
            m_LR |-> {}, m_PC |-> [fn |-> "none", at |-> "none"], m_PSR |-> FALSE]

FrameAt(a) == IF a \in DOMAIN mem THEN mem[a] ELSE NoFrame

\* Variant: the handler clears the sticky status bits after reporting.
Handler_print_clearingStatus(f) ==
    /\ At(f, "print")
    /\ sink' = sink \o printExtraInfo(FrameAt(aFrame), HandlerType(f),
                                      CFSR, HFSR, BFAR, MMFAR)
    /\ CFSR' = {}
    /\ Goto("bkpt")
    /\ UNCHANGED <<CCR, SHCSR, HFSR, BFAR, MMFAR, masks, stack, regs, config,
                   aFrame, initCalls, irqCount, injected, trapLog>>

\* #ifdef __DEBUG_KERNEL__ printExtraInfo(aFrame, <type>); #endif
Handler_print(f) ==
    /\ At(f, "print")
    /\ sink' = sink \o printExtraInfo(FrameAt(aFrame), HandlerType(f),
                                      CFSR, HFSR, BFAR, MMFAR)
    /\ Goto("bkpt")
    /\ UNCHANGED <<scb, masks, stack, regs, config, aFrame,
                   initCalls, irqCount, injected, trapLog>>

\* Variant: the breakpoint does not stop the core.
BKPT_steppedOver(p) == [fn |-> p.fn, at |-> "return"]

\* BKPT with halting debug enabled stops the core in place.
BKPT(p) == [fn |-> "halted", at |-> p.fn]

\* __asm__("BKPT"); }  -- were the core to step past the breakpoint, the
\* function's return is bx lr with lr still holding EXC_RETURN.
Handler_bkpt(f) ==
    /\ At(f, "bkpt")
    /\ IF BKPT(pc).fn = "halted"
       THEN /\ pc' = BKPT(pc)
            /\ UNCHANGED <<masks, stack, regs>>
       ELSE ExceptionReturn
    /\ UNCHANGED <<scb, config, aFrame, sink, initCalls, irqCount, injected, trapLog>>

(***************************************************************************)
(* Interrupts: a request is taken when its priority beats the current      *)
(* execution priority; its handler is foreign code that returns.           *)
(***************************************************************************)
Running == pc.fn \notin {"halted", "lockup"}

IrqPreempt ==
    /\ Running
    /\ irqCount < MaxIrqs
    /\ IrqPrio < ExecPriority
    /\ ExceptionEntry("IRQ", pc)
    /\ irqCount' = irqCount + 1
    /\ UNCHANGED <<scb, masks, config, aFrame, sink, initCalls, injected>>

IrqReturn ==
    /\ At("IRQHandler", "body")
    /\ ExceptionReturn
    /\ UNCHANGED <<scb, config, aFrame, sink, initCalls, irqCount, injected, trapLog>>

(***************************************************************************)
(* The program from reset                                                  *)
(***************************************************************************)
CCR_RESET == Bit(9)

Init ==
    /\ CCR = CCR_RESET /\ SHCSR = {} /\ CFSR = {} /\ HFSR = {}
    /\ BFAR = {} /\ MMFAR = {}
    /\ PRIMASK = 0 /\ FAULTMASK = 0
    /\ MSP = InitialMSP /\ PSP = InitialPSP
    /\ SPSEL \in {0, 1}
    /\ r0 = 0 /\ r1 = {} /\ lr = Hex(<<15, 15, 15, 15, 15, 15, 15, 15>>) /\ Z = FALSE
    /\ pc = [fn |-> "main", at |-> "run"]
    /\ active = <<>>
    /\ mem = <<>>
    /\ aFrame = 0
    /\ sink = <<>>
    /\ DEBUG_KERNEL \in BOOLEAN
    /\ SubFaultPrio \in 0..MaxPrio
    /\ IrqPrio \in 0..MaxPrio
    /\ initCalls = 0 /\ irqCount = 0
    /\ injected = [fn |-> "none", configured |-> FALSE, outcome |-> "none"]
    /\ trapLog = <<>>

CpuStep ==
    \/ \E t \in Trampolines :
          \/ Tramp_tst(t) \/ Tramp_ite(t) \/ Tramp_mrseq(t) \/ Tramp_mrsne(t)
          \/ Tramp_mov(t) \/ Tramp_msr_primask(t) \/ Tramp_msr_faultmask(t)
          \/ Tramp_ldr(t) \/ Tramp_bx(t)
    \/ \E f \in HandlerFns : Handler_print(f) \/ Handler_bkpt(f)
    \/ IrqReturn

Next ==
    \/ exceptionsInit
    \/ generateHardFault
    \/ generateMemMangFault
    \/ generateBusFault
    \/ generateUsageFault
    \/ CpuStep
    \/ IrqPreempt

Spec == Init /\ [][Next]_vars

\* The processor keeps executing: a trampoline, a handler or an interrupt
\* handler that can take its next step does.
FairSpec == Spec /\ WF_vars(CpuStep)

(***************************************************************************)
(* Report specification: a handler is entered, as its trampoline leaves    *)
(* the machine, with the status and address registers holding any of a     *)
(* bounded set of values; the handler reports and halts.                   *)
(***************************************************************************)
CauseBits == SCB_CFSR_DIVBYZERO \cup SCB_CFSR_UNALIGNED \cup SCB_CFSR_UNDEFINSTR
        \cup CFSR_INVSTATE
        \cup SCB_CFSR_BFARVALID \cup SCB_CFSR_LSPERR \cup SCB_CFSR_STKERR
        \cup SCB_CFSR_UNSTKERR \cup SCB_CFSR_IMPRECISERR \cup SCB_CFSR_PRECISERR
        \cup SCB_CFSR_IBUSERR
        \cup SCB_CFSR_MMARVALID \cup SCB_CFSR_MLSPERR \cup SCB_CFSR_MSTKERR
        \cup SCB_CFSR_MUNSTKERR \cup SCB_CFSR_DACCVIOL \cup SCB_CFSR_IACCVIOL

CfsrValues == {w \in SUBSET CauseBits : Cardinality(w) <= MaxCauseBits}
HfsrValues == {{}, HFSR_FORCED, Bit(1)}
BfarValues == {InvalidDataAddress, Hex(<<4, 0, 0, 0, 0, 0, 0, 4>>)}
MmfarValues == {Hex(<<15, 15, 15, 15, 15, 15, 15, 14>>), {}}

ExceptionOf(f) ==
    CASE f = "hardFault"    -> "HardFault"
      [] f = "memMangFault" -> "MemManage"
      [] f = "busFault"     -> "BusFault"
      [] f = "usageFault"   -> "UsageFault"

InitReport ==
    /\ CCR = CCR_RESET \cup SCB_CCR_DIV_0_TRP_Msk
    /\ SHCSR = SCB_SHCSR_USGFAULTENA_Msk \cup SCB_SHCSR_BUSFAULTENA_Msk
               \cup SCB_SHCSR_MEMFAULTENA_Msk
    /\ CFSR \in CfsrValues
    /\ HFSR \in HfsrValues
    /\ BFAR \in BfarValues
    /\ MMFAR \in MmfarValues
    /\ PRIMASK = 0 /\ FAULTMASK = 0
    /\ MSP = InitialMSP - FrameSize /\ PSP = InitialPSP
    /\ SPSEL = 0
    /\ DEBUG_KERNEL = TRUE
    /\ SubFaultPrio = 0 /\ IrqPrio = 0
    /\ \E f \in HandlerFns :
         /\ pc = [fn |-> f, at |-> "print"]
         /\ r1 = AddressOf(f)
         /\ active = <<[exc |-> ExceptionOf(f),
                        prio |-> IF f = "hardFault" THEN -1 ELSE 0]>>
         /\ trapLog = <<[vector |-> VectorTable(ExceptionOf(f)),
                         excReturn |-> EXC_RETURN_THREAD_MSP,
                         msp |-> InitialMSP - FrameSize, psp |-> InitialPSP]>>
    /\ r0 = InitialMSP - FrameSize /\ lr = EXC_RETURN_THREAD_MSP /\ Z = TRUE
    /\ aFrame = InitialMSP - FrameSize
    /\ mem = [a \in {InitialMSP - FrameSize} |->
                 [m_R0 |-> 0, m_R1 |-> {}, m_R2 |-> 2, m_R3 |-> 3, m_R12 |-> 12,
                  m_LR |-> Hex(<<15, 15, 15, 15, 15, 15, 15, 15>>),
                  m_PC |-> [fn |-> "main", at |-> "run"], m_PSR |-> FALSE]]
    /\ sink = <<>>
    /\ initCalls = 1 /\ irqCount = 0
    /\ injected = [fn |-> "none", configured |-> FALSE, outcome |-> "none"]

NextReport == \E f \in HandlerFns : Handler_print(f) \/ Handler_bkpt(f)

SpecReport == InitReport /\ [][NextReport]_vars

(***************************************************************************)
(* Observations used by the properties                                     *)
(***************************************************************************)
\* Handler f has written its report.
Reported(f) ==
    /\ DEBUG_KERNEL
    /\ \/ pc.fn = f /\ pc.at = "bkpt"
       \/ pc.fn = "halted" /\ pc.at = f

ReasonFmts == {"Reason: Division by zero\r\n\n", "Reason: Misaligned data access\r\n\n",
               "Reason: Undefined instruction\r\n\n", "Reason: Unknown\r\n\n",
               "Reason: Invalid code address\r\n\n", "Reason: Invalid data address\r\n\n",
               "Reason: Exception stack fault\r\n\n", "Reason: Floating point fault\r\n\n"}
TypeFmts == {"Type: Usage Fault\r\n", "Type: Bus Fault\r\n",
             "Type: Hard Fault\r\n", "Type: Memory Fault\r\n"}

IsReason(l) == l.fmt \in ReasonFmts
IsType(l) == l.fmt \in TypeFmts
IsFaultAddress(l) == l.fmt = "Fault address=%x\r\n"

FmtsOf(s) == [i \in 1..Len(s) |-> s[i].fmt]
Reasons == FmtsOf(SelectSeq(sink, IsReason))
Types == FmtsOf(SelectSeq(sink, IsType))
FaultAddresses == [i \in 1..Len(SelectSeq(sink, IsFaultAddress)) |->
                      SelectSeq(sink, IsFaultAddress)[i].args[1]]

Has(w, m) == (w \cap m) # {}

(***************************************************************************)
(* Properties                                                              *)
(***************************************************************************)

\* C1: whenever a fault handler (and with it printExtraInfo) is executing,
\* PRIMASK and FAULTMASK are both in their masking state (1).
C1_MasksSetInHandlers ==
    pc.fn \in HandlerFns => PRIMASK = 1 /\ FAULTMASK = 1

\* The context an interrupt handler has pre-empted.
Preempted == FrameAt(MSP).m_PC

MaskedPart(p) ==
    \/ p.fn \in HandlerFns
    \/ p.fn \in Trampolines /\ p.at \in {"ldr", "bx"}

\* C2: the path from the trampoline's masking instructions through the
\* handler and the diagnostics to the halt is never pre-empted by an
\* interrupt handler, and no second trampoline entry happens in one run.
C2_DiagnosticPathNotInterleaved ==
    /\ pc.fn = "IRQHandler" /\ active[Len(active)].exc = "IRQ" /\ Len(active) > 1
          => ~MaskedPart(Preempted)
    /\ Len(trapLog) <= 1

Trapped == trapLog # <<>>
Halted == pc.fn = "halted"

\* C3: after a trap the processor eventually halts at the BKPT, stays
\* halted, and control never goes back to the faulted thread code.
C3_TrapEndsInHalt ==
    /\ Trapped ~> Halted
    /\ [][Halted => Halted']_vars
    /\ [][Trapped => pc'.fn \notin ThreadFns]_vars

\* C3 witness: a handler built without the debug report has halted.
C3_Witness ==
    Halted /\ ~DEBUG_KERNEL /\ Len(trapLog) = 1 /\ irqCount > 0

\* C4: the frame pointer a handler receives is MSP when bit 2 of the
\* EXC_RETURN value at trap entry is 0 and PSP when it is 1, for every
\* trampoline.
C4_FramePointerSelection ==
    pc.fn \in HandlerFns =>
        /\ Trapped
        /\ aFrame = IF Has(trapLog[Len(trapLog)].excReturn, Bit(2)) THEN PSP ELSE MSP

\* C4 witness: a handler has received the process stack pointer.
C4_Witness ==
    /\ pc.fn \in HandlerFns
    /\ Has(trapLog[Len(trapLog)].excReturn, Bit(2))
    /\ aFrame = PSP /\ aFrame # MSP
    /\ aFrame \in DOMAIN mem

\* The reason the MemManageFault decode order of the specification names.
MemManageReasonClaimed(cfsr) ==
    IF Has(cfsr, SCB_CFSR_IACCVIOL) THEN "Reason: Invalid code address\r\n\n"
    ELSE IF Has(cfsr, SCB_CFSR_DACCVIOL) THEN "Reason: Invalid data address\r\n\n"
    ELSE IF Has(cfsr, SCB_CFSR_MSTKERR) \/ Has(cfsr, SCB_CFSR_MUNSTKERR)
         THEN "Reason: Exception stack fault\r\n\n"
    ELSE IF Has(cfsr, SCB_CFSR_MLSPERR) THEN "Reason: Floating point fault\r\n\n"
    ELSE "Reason: Unknown\r\n\n"

\* C5: a MemManageFault report's reason is the first match of IACCVIOL >
\* DACCVIOL > MSTKERR or MUNSTKERR > MLSPERR > Unknown.
C5_MemManageReasonPriority ==
    Reported("memMangFault") => Reasons = <<MemManageReasonClaimed(CFSR)>>

\* C6: a UsageFault report's reason is the first match of DIVBYZERO >
\* UNALIGNED > UNDEFINSTR > Unknown.
C6_UsageReasonPriority ==
    Reported("usageFault") =>
        /\ Len(Reasons) = 1
        /\ Has(CFSR, SCB_CFSR_DIVBYZERO) => Reasons[1] = "Reason: Division by zero\r\n\n"
        /\ ~Has(CFSR, SCB_CFSR_DIVBYZERO) /\ Has(CFSR, SCB_CFSR_UNALIGNED)
              => Reasons[1] = "Reason: Misaligned data access\r\n\n"
        /\ ~Has(CFSR, SCB_CFSR_DIVBYZERO) /\ ~Has(CFSR, SCB_CFSR_UNALIGNED)
              /\ Has(CFSR, SCB_CFSR_UNDEFINSTR)
              => Reasons[1] = "Reason: Undefined instruction\r\n\n"
        /\ ~Has(CFSR, SCB_CFSR_DIVBYZERO \cup SCB_CFSR_UNALIGNED \cup SCB_CFSR_UNDEFINSTR)
              => Reasons[1] = "Reason: Unknown\r\n\n"

\* C6 witness: DIVBYZERO and UNALIGNED both set, division by zero reported.
C6_Witness ==
    /\ Reported("usageFault")
    /\ Has(CFSR, SCB_CFSR_DIVBYZERO) /\ Has(CFSR, SCB_CFSR_UNALIGNED)
    /\ Reasons = <<"Reason: Division by zero\r\n\n">>

\* C7: a BusFault report's reason is the first match of IBUSERR >
\* PRECISERR or IMPRECISERR > STKERR or UNSTKERR > LSPERR > Unknown.
C7_BusReasonPriority ==
    Reported("busFault") =>
        LET ibus == Has(CFSR, SCB_CFSR_IBUSERR)
            data == Has(CFSR, SCB_CFSR_PRECISERR) \/ Has(CFSR, SCB_CFSR_IMPRECISERR)
            stk  == Has(CFSR, SCB_CFSR_STKERR) \/ Has(CFSR, SCB_CFSR_UNSTKERR)
            lsp  == Has(CFSR, SCB_CFSR_LSPERR)
        IN  /\ Len(Reasons) = 1
            /\ ibus => Reasons[1] = "Reason: Invalid code address\r\n\n"
            /\ ~ibus /\ data => Reasons[1] = "Reason: Invalid data address\r\n\n"
            /\ ~ibus /\ ~data /\ stk => Reasons[1] = "Reason: Exception stack fault\r\n\n"
            /\ ~ibus /\ ~data /\ ~stk /\ lsp
                  => Reasons[1] = "Reason: Floating point fault\r\n\n"
            /\ ~ibus /\ ~data /\ ~stk /\ ~lsp => Reasons[1] = "Reason: Unknown\r\n\n"

\* C7 witness: an imprecise data bus error outranks a stacking error.
C7_Witness ==
    /\ Reported("busFault")
    /\ Has(CFSR, SCB_CFSR_IMPRECISERR) /\ Has(CFSR, SCB_CFSR_STKERR)
    /\ Reasons = <<"Reason: Invalid data address\r\n\n">>

\* C8: the fault address of a BusFault report is BFAR when BFARVALID is
\* set and the sentinel otherwise; that of a MemManageFault report is MMFAR
\* when MMARVALID is set and the sentinel otherwise.
C8_FaultAddressValidity ==
    /\ Reported("busFault") =>
          FaultAddresses = << IF Has(CFSR, SCB_CFSR_BFARVALID) THEN BFAR
                              ELSE EXCEPTION_HANDLER_FIELD_IS_INVALID >>
    /\ Reported("memMangFault") =>
          FaultAddresses = << IF Has(CFSR, SCB_CFSR_MMARVALID) THEN MMFAR
                              ELSE EXCEPTION_HANDLER_FIELD_IS_INVALID >>

\* C8 witness: a MemManageFault report with only the bus-fault valid flag
\* set shows the sentinel, not BFAR.
C8_Witness ==
    /\ Reported("memMangFault")
    /\ Has(CFSR, SCB_CFSR_BFARVALID) /\ ~Has(CFSR, SCB_CFSR_MMARVALID)
    /\ BFAR # EXCEPTION_HANDLER_FIELD_IS_INVALID
    /\ FaultAddresses = <<EXCEPTION_HANDLER_FIELD_IS_INVALID>>

\* C9: generateUsageFault enters the UsageFault path when exceptionsInit
\* has run before it, and the HardFault path when it has not.
C9_UsageFaultEscalation ==
    injected.fn = "generateUsageFault" =>
        /\ Trapped
        /\ trapLog[1].vector = IF injected.configured THEN "UsageFault_Handler"
                               ELSE "HardFault_Handler"

InjectorType(g) ==
    CASE g = "generateHardFault"    -> "Type: Hard Fault\r\n"
      [] g = "generateMemMangFault" -> "Type: Memory Fault\r\n"
      [] g = "generateBusFault"     -> "Type: Bus Fault\r\n"
      [] g = "generateUsageFault"   -> "Type: Usage Fault\r\n"

AnyReported == \E f \in HandlerFns : Reported(f)

\* C10: with sub-fault trapping enabled, the report that follows an
\* injector names the injector's kind, and the one that follows
\* generateHardFault has "Type: Hard Fault" and "Reason: Unknown".
C10_InjectorReportType ==
    AnyReported /\ injected.fn # "none" /\ injected.configured =>
        /\ Types = <<InjectorType(injected.fn)>>
        /\ injected.fn = "generateHardFault" => Reasons = <<"Reason: Unknown\r\n\n">>

\* C10 as amended: with sub-fault trapping enabled the report that follows
\* generateMemMangFault, generateBusFault or generateUsageFault names that
\* kind and the one that follows generateHardFault names Usage Fault (with
\* reason Unknown when the call is executed as a branch to address 0);
\* generateHardFault is reported as Hard Fault, reason Unknown, when
\* sub-fault trapping is disabled.
C10_InjectorReportTypeAmended ==
    AnyReported /\ injected.fn # "none" =>
        /\ injected.configured /\ injected.fn # "generateHardFault"
              => Types = <<InjectorType(injected.fn)>>
        /\ injected.configured /\ injected.fn = "generateHardFault"
              => /\ Types = <<"Type: Usage Fault\r\n">>
                 /\ injected.outcome = "branch" => Reasons = <<"Reason: Unknown\r\n\n">>
        /\ ~injected.configured /\ injected.fn = "generateHardFault"
              => /\ Types = <<"Type: Hard Fault\r\n">>
                 /\ Reasons = <<"Reason: Unknown\r\n\n">>

\* C10 witness: the null call with sub-fault trapping enabled has been
\* reported as a usage fault.
C10_Witness ==
    /\ Reported("usageFault")
    /\ injected.fn = "generateHardFault" /\ injected.configured
    /\ injected.outcome = "branch"
    /\ Types = <<"Type: Usage Fault\r\n">>
    /\ Reasons = <<"Reason: Unknown\r\n\n">>

IsStatus(l) == l.fmt = "HFSR=%x CFSR=%x\r\n"

\* The HFSR and CFSR values printed, one entry per status line written.
HfsrPrinted == [i \in 1..Len(SelectSeq(sink, IsStatus)) |->
                   SelectSeq(sink, IsStatus)[i].args[1]]
CfsrPrinted == [i \in 1..Len(SelectSeq(sink, IsStatus)) |->
                   SelectSeq(sink, IsStatus)[i].args[2]]

\* C11: a HardFault report gives the reason Unknown whatever CFSR and HFSR
\* hold, and the HFSR value it prints is the live HFSR register.
C11_HardFaultReport ==
    Reported("hardFault") =>
        /\ Reasons = <<"Reason: Unknown\r\n\n">>
        /\ HfsrPrinted = <<HFSR>>

\* C11 witness: a HardFault report with cause bits set in CFSR and FORCED
\* set in HFSR.
C11_Witness ==
    /\ Reported("hardFault")
    /\ Has(CFSR, SCB_CFSR_DIVBYZERO) /\ HFSR = HFSR_FORCED
    /\ Reasons = <<"Reason: Unknown\r\n\n">>
    /\ HfsrPrinted = <<HFSR_FORCED>>

(***************************************************************************)
(* Configuration specification: exceptionsInit called, up to MaxInitCalls  *)
(* times, from any value of the writable CCR and SHCSR bits.               *)
(***************************************************************************)
\* CCR: NONBASETHRDENA, USERSETMPEND, UNALIGN_TRP, DIV_0_TRP, BFHFNMIGN,
\* STKALIGN. SHCSR: MEMFAULTACT, SVCALLPENDED and the three enables.
CcrValues == SUBSET (Bit(0) \cup Bit(1) \cup SCB_CCR_UNALIGN_TRP_Msk
                     \cup SCB_CCR_DIV_0_TRP_Msk \cup Bit(8) \cup Bit(9))
ShcsrValues == SUBSET (Bit(0) \cup Bit(15) \cup SCB_SHCSR_MEMFAULTENA_Msk
                       \cup SCB_SHCSR_BUSFAULTENA_Msk \cup SCB_SHCSR_USGFAULTENA_Msk)

InitConfig ==
    /\ CCR \in CcrValues /\ SHCSR \in ShcsrValues
    /\ CFSR = {} /\ HFSR = {} /\ BFAR = {} /\ MMFAR = {}
    /\ PRIMASK = 0 /\ FAULTMASK = 0
    /\ MSP = InitialMSP /\ PSP = InitialPSP /\ SPSEL = 0
    /\ r0 = 0 /\ r1 = {} /\ lr = Hex(<<15, 15, 15, 15, 15, 15, 15, 15>>) /\ Z = FALSE
    /\ pc = [fn |-> "main", at |-> "run"]
    /\ active = <<>> /\ mem = <<>> /\ aFrame = 0 /\ sink = <<>>
    /\ DEBUG_KERNEL = TRUE /\ SubFaultPrio = 0 /\ IrqPrio = 0
    /\ initCalls = 0 /\ irqCount = 0
    /\ injected = [fn |-> "none", configured |-> FALSE, outcome |-> "none"]
    /\ trapLog = <<>>

NextConfig == exceptionsInit

SpecConfig == InitConfig /\ [][NextConfig]_vars

TrapEnables(ccr, shcsr) ==
    /\ Has(ccr, SCB_CCR_DIV_0_TRP_Msk)
    /\ Has(shcsr, SCB_SHCSR_USGFAULTENA_Msk)
    /\ Has(shcsr, SCB_SHCSR_BUSFAULTENA_Msk)
    /\ Has(shcsr, SCB_SHCSR_MEMFAULTENA_Msk)

\* C12: exceptionsInit is idempotent: a call after the first leaves CCR
\* and SHCSR as the first call left them, and the trap-enable bits are set
\* after any number of calls.
C12_InitIdempotent ==
    /\ [](initCalls >= 1 => TrapEnables(CCR, SHCSR))
    /\ [][initCalls >= 1 /\ initCalls' = initCalls + 1
             => CCR' = CCR /\ SHCSR' = SHCSR]_vars

\* C12 witness: exceptionsInit has run twice, the enables are set and bits
\* it does not own hold values other than their reset ones.
C12_Witness ==
    /\ initCalls = 2
    /\ TrapEnables(CCR, SHCSR)
    /\ ~Has(CCR, Bit(9)) /\ Has(SHCSR, Bit(15))

SubFaultEnables == SCB_SHCSR_USGFAULTENA_Msk \cup SCB_SHCSR_BUSFAULTENA_Msk
                   \cup SCB_SHCSR_MEMFAULTENA_Msk

\* C13: in the default configuration a call of exceptionsInit sets the
\* divide-by-zero trap bit and the three sub-fault enables and changes no
\* other bit of CCR or SHCSR, the unaligned-access trap bit included; from
\* the reset value of CCR only the divide-by-zero trap is enabled.
C13_InitFrame ==
    [][initCalls' = initCalls + 1 =>
          /\ Has(CCR', SCB_CCR_DIV_0_TRP_Msk)
          /\ CCR \subseteq CCR' /\ (CCR' \ CCR) \subseteq SCB_CCR_DIV_0_TRP_Msk
          /\ Has(CCR', SCB_CCR_UNALIGN_TRP_Msk) <=> Has(CCR, SCB_CCR_UNALIGN_TRP_Msk)
          /\ SubFaultEnables \subseteq SHCSR'
          /\ SHCSR \subseteq SHCSR' /\ (SHCSR' \ SHCSR) \subseteq SubFaultEnables
          /\ CCR = CCR_RESET =>
                (CCR' \cap (SCB_CCR_DIV_0_TRP_Msk \cup SCB_CCR_UNALIGN_TRP_Msk))
                    = SCB_CCR_DIV_0_TRP_Msk
    ]_vars

\* C13 witness: exceptionsInit has run once from the reset values.
C13_Witness ==
    /\ initCalls = 1
    /\ CCR = CCR_RESET \cup SCB_CCR_DIV_0_TRP_Msk
    /\ SHCSR = SubFaultEnables

ReportFmts == <<"**** EXCEPTION OCCURRED ****\r\n">>

IsFrameLine(l) == l.fmt \in {"R0=%x R1=%x\r\n", "R2=%x R3=%x\r\n",
                             "R12=%x LR=%x\r\n", "PC=%x PSR=%x\r\n"}
IsBanner(l) == l.fmt = ReportFmts[1]

\* One whole report: every part present, nothing else.
CompleteReport(s) ==
    /\ Len(s) = 9
    /\ Len(SelectSeq(s, IsBanner)) = 1
    /\ Len(SelectSeq(s, IsType)) = 1
    /\ Len(SelectSeq(s, IsReason)) = 1
    /\ Len(SelectSeq(s, IsFrameLine)) = 4
    /\ Len(SelectSeq(s, IsStatus)) = 1
    /\ Len(SelectSeq(s, IsFaultAddress)) = 1

\* C14: with __DEBUG_KERNEL__ a handler has written the complete report
\* before the BKPT executes; without it the handler's first instruction is
\* the BKPT and nothing is ever written to the sink.
C14_DebugReporting ==
    /\ DEBUG_KERNEL /\ Halted => CompleteReport(sink)
    /\ DEBUG_KERNEL /\ pc.fn \in HandlerFns /\ pc.at = "bkpt" => CompleteReport(sink)
    /\ ~DEBUG_KERNEL => sink = <<>>
    /\ ~DEBUG_KERNEL /\ pc.fn \in HandlerFns => pc.at = "bkpt"

\* C14 witness: a debug build has halted after its report.
C14_Witness ==
    Halted /\ DEBUG_KERNEL /\ CompleteReport(sink) /\ pc.at = "busFault"

\* C15: no trampoline, handler or printExtraInfo step changes CCR, SHCSR,
\* CFSR, HFSR, BFAR or MMFAR; a step that writes to the sink changes
\* nothing else but the program position; and the CFSR value a report
\* prints is the register value its reason was decoded from.
C15_RegistersReadOnly ==
    /\ [][pc.fn \in Trampolines \cup HandlerFns => scb' = scb]_vars
    /\ [][sink' # sink =>
             UNCHANGED <<scb, masks, stack, regs, config, aFrame,
                         initCalls, irqCount, injected, trapLog>>]_vars
    /\ [](\A f \in HandlerFns : Reported(f) =>
             /\ CfsrPrinted = <<CFSR>>
             /\ Reasons = <<ReasonLine(HandlerType(f), CfsrPrinted[1])>>)

\* C15 witness: a report has been written with cause bits set in CFSR.
C15_Witness ==
    AnyReported /\ CFSR # {} /\ CfsrPrinted = <<CFSR>> /\ pc.fn \in HandlerFns

LastVector == trapLog[Len(trapLog)].vector

\* C16: each trampoline transfers control to the handler of its own kind
\* and that handler reports its own kind, so the Type line of a report is
\* that of the vector that fired.
C16_VectorHandlerType ==
    /\ pc.fn \in HandlerFns =>
          /\ LastVector = "HardFault_Handler"  => pc.fn = "hardFault"
          /\ LastVector = "MemManage_Handler"  => pc.fn = "memMangFault"
          /\ LastVector = "BusFault_Handler"   => pc.fn = "busFault"
          /\ LastVector = "UsageFault_Handler" => pc.fn = "usageFault"
    /\ AnyReported =>
          /\ LastVector = "HardFault_Handler"  => Types = <<"Type: Hard Fault\r\n">>
          /\ LastVector = "MemManage_Handler"  => Types = <<"Type: Memory Fault\r\n">>
          /\ LastVector = "BusFault_Handler"   => Types = <<"Type: Bus Fault\r\n">>
          /\ LastVector = "UsageFault_Handler" => Types = <<"Type: Usage Fault\r\n">>

\* C16 witness: the MemManage vector fired and memMangFault reported a
\* memory fault.
C16_Witness ==
    /\ Reported("memMangFault")
    /\ LastVector = "MemManage_Handler"
    /\ Types = <<"Type: Memory Fault\r\n">>
    /\ injected.fn = "generateMemMangFault"

\* C17: every report has exactly one Type line and one Reason line and its
\* lines come in the order banner, Type, Reason, R0/R1, R2/R3, R12/LR,
\* PC/PSR, HFSR/CFSR, fault address.
C17_ReportLayout ==
    AnyReported =>
        /\ Len(sink) = 9
        /\ Len(Types) = 1 /\ Len(Reasons) = 1
        /\ sink[1].fmt = "**** EXCEPTION OCCURRED ****\r\n"
        /\ IsType(sink[2])
        /\ IsReason(sink[3])
        /\ sink[4].fmt = "R0=%x R1=%x\r\n"
        /\ sink[5].fmt = "R2=%x R3=%x\r\n"
        /\ sink[6].fmt = "R12=%x LR=%x\r\n"
        /\ sink[7].fmt = "PC=%x PSR=%x\r\n"
        /\ sink[8].fmt = "HFSR=%x CFSR=%x\r\n"
        /\ sink[9].fmt = "Fault address=%x\r\n"

\* C17 witness: a BusFault report with a decoded reason has been written.
C17_Witness ==
    /\ Reported("busFault")
    /\ Len(sink) = 9
    /\ sink[3].fmt = "Reason: Floating point fault\r\n\n"
    /\ sink[9].fmt = "Fault address=%x\r\n"

\* C18: UsageFault, BusFault and MemManageFault reports print the sentinel
\* in the HFSR field whatever HFSR holds, and HardFault and UsageFault
\* reports print the sentinel as the fault address whatever the validity
\* bits, BFAR and MMFAR hold.
C18_SentinelFields ==
    /\ \A f \in {"usageFault", "busFault", "memMangFault"} :
          Reported(f) => HfsrPrinted = <<EXCEPTION_HANDLER_FIELD_IS_INVALID>>
    /\ \A f \in {"hardFault", "usageFault"} :
          Reported(f) => FaultAddresses = <<EXCEPTION_HANDLER_FIELD_IS_INVALID>>

\* C18 witness: a UsageFault report written with HFSR.FORCED and BFARVALID
\* set shows the sentinel in both fields.
C18_Witness ==
    /\ Reported("usageFault")
    /\ HFSR = HFSR_FORCED
    /\ Has(CFSR, SCB_CFSR_BFARVALID) /\ Has(CFSR, SCB_CFSR_MMARVALID)
    /\ HfsrPrinted = <<EXCEPTION_HANDLER_FIELD_IS_INVALID>>
    /\ FaultAddresses = <<EXCEPTION_HANDLER_FIELD_IS_INVALID>>

====
